---- MODULE Spec2Model ----
(***************************************************************************)
(* Loss dispatch and optimizer assembly of FFNTracerModel                  *)
(* (src/fftracer/training/models/model.py).                                *)
(*                                                                         *)
(* Real numbers are fixed-point integers in units of 1/Scale; tensors are  *)
(* symbolic terms whose value is given by TermValue; a loss is the         *)
(* expression tree the graph builder leaves in self.loss, and Eval is what *)
(* a session computes from it at a given global_step.                      *)
(***************************************************************************)
EXTENDS Integers, Sequences, FiniteSets, TLC

VARIABLES
    loss_name,              \* self.loss_name
    alpha,                  \* self.alpha, in units of 1/Scale
    adv_args,               \* self._adv_args is not None
    fov_z,                  \* depth axis of the logits, from fov_size
    labels,                 \* self.labels: "None", "same_shape", "other_shape"
    loss_weights,           \* self.loss_weights: << >> is None, <<k>> a tensor
    loss,                   \* self.loss
    discriminator,          \* self.discriminator
    train_op,               \* self.train_op
    adversarial_train_op,   \* self.adversarial_train_op
    logits,                 \* self.logits is not None
    global_step,            \* self.global_step
    err,                    \* exception raised by the last call, or "none"
    log,                    \* the effects of the last call, in program order
    last,                   \* the last operation called
    calls,                  \* number of direct set_up_* calls made so far
    disc_count,             \* number of discriminators constructed so far
    undefined_grad,         \* scope holding a variable the loss does not reach
    y_true,                 \* label batch fed to the last boundary evaluation
    dist_map,               \* distance maps computed by that evaluation
    raw_grads,              \* gradient entries computed by the last train run
    applied_grads,          \* the entries handed to apply_gradients
    main_runs,              \* completed executions of train_op
    adv_runs                \* completed executions of adversarial_train_op

vars == <<loss_name, alpha, adv_args, fov_z, labels, loss_weights, loss,
          discriminator, train_op, adversarial_train_op, logits, global_step,
          err, log, last, calls, disc_count, undefined_grad, y_true,
          dist_map, raw_grads, applied_grads, main_runs, adv_runs>>

----------------------------------------------------------------------------
(* Bounds *)
MaxStep == 3
MaxCalls == 2
MaxWeight == 2

(* Fixed-point unit, the 0.01 floor of the schedule, the default l1lambda *)
Scale == 1000
Floor == 10
L1Lambda == 1

(* The soft-label threshold 0.95 in hundredths, and the default           *)
(* max_gradient_entry_mag 0.7 in units of 1/Scale                          *)
Threshold == 95
MaxGradientEntryMag == 700

AlphaValues == {1, 400, Scale - 1}

LossNames == {"sigmoid_pixelwise", "l1", "l1_continuity", "ssim", "ms_ssim",
              "boundary", "adversarial", "adversarial_sce", "ot", "patchgan",
              "patchgan_sce"}

AdversarialNames == {"adversarial", "adversarial_sce", "patchgan", "patchgan_sce"}

NameInputs == LossNames \cup {"bogus"}

LabelInputs == {"None", "same_shape", "other_shape"}

WeightInputs == {<< >>} \cup {<<k>> : k \in 1..MaxWeight}

ScopeInputs == {"None", "seed_update", "discriminator"}

\* voxel values in hundredths: the soft labels 0.05 and 0.95
VoxelValues == {5, 95}

\* a ground-truth volume is a row of two voxels
Volumes == [1..2 -> VoxelValues]

\* batches of two volumes: with foreground in both, in the first only, in
\* the second only, in neither, and with a volume that is all foreground
Batches == {b \in [1..2 -> Volumes] :
                b \in {<< <<5, 95>>, <<95, 5>> >>, << <<5, 95>>, <<5, 5>> >>,
                       << <<5, 5>>, <<95, 95>> >>, << <<5, 5>>, <<5, 5>> >>,
                       << <<95, 95>>, <<95, 5>> >>}}

\* gradient tensors of two entries, in units of 1/Scale
GradTensors == {<<-701, 700>>, <<701, -300>>, <<-700, 1500>>}

Max(x, y) == IF x >= y THEN x ELSE y

----------------------------------------------------------------------------
(* Values held by the model's slots *)

NoTerm == [name |-> "None", weights |-> << >>, checked |-> FALSE]

Term(n, w, c) == [name |-> n, weights |-> w, checked |-> c]

NoLoss == [form |-> "None", a |-> NoTerm, b |-> NoTerm, checked |-> FALSE]

NoDiscriminator == [type |-> "None", id |-> 0, d_loss |-> FALSE]

NoTrainOp == [built |-> FALSE, loss |-> NoLoss, scope |-> "None", clip |-> 0]

Self == [loss_name |-> loss_name, alpha |-> alpha, adv_args |-> adv_args,
         fov_z |-> fov_z, labels |-> labels, loss_weights |-> loss_weights,
         loss |-> loss, discriminator |-> discriminator,
         train_op |-> train_op, adversarial_train_op |-> adversarial_train_op,
         logits |-> logits, err |-> "none", log |-> << >>,
         disc_count |-> disc_count, undefined_grad |-> undefined_grad]

Raise(self, e) == [self EXCEPT !.err = e, !.log = Append(@, "raise")]

WriteLoss(self, l) == [self EXCEPT !.loss = l, !.log = Append(@, "loss:=")]

\* tf.verify_tensor_all_finite applied to a scalar loss
verify_tensor_all_finite(l) == [l EXCEPT !.checked = TRUE]

\* a loss made of one tensor
Single(t) == [form |-> "term", a |-> t, b |-> NoTerm, checked |-> t.checked]

----------------------------------------------------------------------------
(* The alpha schedule and the value of a loss expression *)

\* the schedule without its floor
alpha_schedule_unfloored(step, a) == Scale - a * step

\* tf.maximum(1. - self.alpha * global_step, 0.01), in units of 1/Scale
alpha_schedule(step, a) == Max(Scale - a * step, Floor)

\* sample value of each tensor of the graph; a per-pixel weighted term is
\* multiplied by the weight before the mean is taken
TermValue(t) ==
    LET base == CASE t.name = "sce" -> 3
                  [] t.name = "l1" -> 2
                  [] t.name = "ssim" -> -1
                  [] t.name = "ms_ssim" -> -2
                  [] t.name = "boundary" -> 4
                  [] t.name = "generator" -> 5
                  [] t.name = "continuity" -> 7
                  [] t.name = "ot" -> -3
                  [] t.name = "explicit" -> 11
                  [] OTHER -> 0
    IN  IF t.weights = << >> THEN base ELSE base * t.weights[1]

\* the value a session computes for loss expression l, times Scale
Eval(l, step, a) ==
    CASE l.form = "term" -> Scale * TermValue(l.a)
      [] l.form = "blend" -> alpha_schedule(step, a) * TermValue(l.a)
                             + (Scale - alpha_schedule(step, a)) * TermValue(l.b)
      [] l.form = "lambda" -> Scale * TermValue(l.a) + L1Lambda * TermValue(l.b)
      [] OTHER -> 0

----------------------------------------------------------------------------
(* Loss strategies.  Each takes the model object and returns it as the     *)
(* method leaves it; a raised exception is recorded in err and ends the    *)
(* method with the effects made so far.                                    *)

compute_sce_loss(self, verify_finite) ==
    IF self.labels = "None" THEN [err |-> "AssertionError", value |-> NoTerm]
    ELSE IF self.loss_weights = << >>
    THEN [err |-> "AssertionError", value |-> NoTerm]
    ELSE IF self.labels # "same_shape"
    THEN [err |-> "ValueError", value |-> NoTerm]
    ELSE [err |-> "none",
          value |-> Term("sce", self.loss_weights, verify_finite)]

\* the two terms of the blend exchanged
alpha_weight_losses_swapped(self, loss_a, loss_b) ==
    LET raw == [form |-> "blend", a |-> loss_b, b |-> loss_a, checked |-> FALSE]
        s1 == WriteLoss(self, raw)
    IN  WriteLoss(s1, verify_tensor_all_finite(s1.loss))

alpha_weight_losses(self, loss_a, loss_b) ==
    LET raw == [form |-> "blend", a |-> loss_a, b |-> loss_b, checked |-> FALSE]
        s1 == WriteLoss(self, raw)
    IN  WriteLoss(s1, verify_tensor_all_finite(s1.loss))

\* FFNModel.set_up_sigmoid_pixelwise_loss, inherited from the ffn package
set_up_sigmoid_pixelwise_loss(self) ==
    IF self.labels = "None" \/ self.loss_weights = << >>
    THEN Raise(self, "AssertionError")
    ELSE IF self.labels # "same_shape" THEN Raise(self, "ValueError")
    ELSE WriteLoss(self, verify_tensor_all_finite(
                             Single(Term("sce", self.loss_weights, FALSE))))

set_up_l1_loss(self) ==
    IF self.labels = "None" \/ self.loss_weights = << >>
    THEN Raise(self, "AssertionError")
    ELSE IF self.labels # "same_shape" THEN Raise(self, "ValueError")
    ELSE LET s1 == WriteLoss(self, Single(Term("l1", self.loss_weights, FALSE)))
         IN  WriteLoss(s1, verify_tensor_all_finite(s1.loss))

set_up_ssim_loss(self) ==
    IF self.labels = "None" THEN Raise(self, "AssertionError")
    ELSE IF self.labels # "same_shape" THEN Raise(self, "ValueError")
    ELSE LET batch_ssim_loss == Term("ssim", << >>, FALSE)
             ce == compute_sce_loss(self, TRUE)
         IN  IF ce.err # "none" THEN Raise(self, ce.err)
             ELSE alpha_weight_losses(self, ce.value, batch_ssim_loss)

set_up_ms_ssim_loss(self) ==
    IF self.labels = "None" THEN Raise(self, "AssertionError")
    ELSE IF self.labels # "same_shape" THEN Raise(self, "ValueError")
    ELSE LET s1 == WriteLoss(self, Single(Term("ms_ssim", << >>, FALSE)))
         IN  WriteLoss(s1, verify_tensor_all_finite(s1.loss))

set_up_boundary_loss(self) ==
    IF self.labels = "None" \/ self.loss_weights = << >>
    THEN Raise(self, "AssertionError")
    ELSE LET batch_boundary_loss == Term("boundary", << >>, FALSE)
             ce == compute_sce_loss(self, TRUE)
         IN  IF ce.err # "none" THEN Raise(self, ce.err)
             ELSE alpha_weight_losses(self, ce.value, batch_boundary_loss)

set_up_l1_continuity_loss(self) ==
    LET ce == compute_sce_loss(self, TRUE)
    IN  IF ce.err # "none" THEN Raise(self, ce.err)
        ELSE LET raw == [form |-> "lambda", a |-> ce.value,
                         b |-> Term("continuity", << >>, FALSE),
                         checked |-> FALSE]
                 s1 == WriteLoss(self, raw)
             IN  WriteLoss(s1, verify_tensor_all_finite(s1.loss))

\* the discriminator built without reading adv_args
initialize_adversary_no_args(self, type) ==
    IF self.labels = "None" THEN Raise(self, "AttributeError")
    ELSE IF self.labels # "same_shape" THEN Raise(self, "AssertionError")
    ELSE IF type \notin {"dcgan", "patchgan"}
    THEN Raise(self, "NotImplementedError")
    ELSE [self EXCEPT !.discriminator = [type |-> type,
                                         id |-> self.disc_count + 1,
                                         d_loss |-> FALSE],
                      !.disc_count = @ + 1,
                      !.log = Append(@, "discriminator:=")]

\* the discriminator built without comparing the shapes
initialize_adversary_no_shape(self, type) ==
    IF self.labels = "None" THEN Raise(self, "AttributeError")
    ELSE IF type \notin {"dcgan", "patchgan"}
    THEN Raise(self, "NotImplementedError")
    ELSE IF ~self.adv_args THEN Raise(self, "AssertionError")
    ELSE [self EXCEPT !.discriminator = [type |-> type,
                                         id |-> self.disc_count + 1,
                                         d_loss |-> FALSE],
                      !.disc_count = @ + 1,
                      !.log = Append(@, "discriminator:=")]

initialize_adversary(self, type) ==
    IF self.labels = "None" THEN Raise(self, "AttributeError")
    ELSE IF self.labels # "same_shape" THEN Raise(self, "AssertionError")
    ELSE IF type \notin {"dcgan", "patchgan"}
    THEN Raise(self, "NotImplementedError")
    ELSE IF ~self.adv_args THEN Raise(self, "AssertionError")
    ELSE [self EXCEPT !.discriminator = [type |-> type,
                                         id |-> self.disc_count + 1,
                                         d_loss |-> FALSE],
                      !.disc_count = @ + 1,
                      !.log = Append(@, "discriminator:=")]

compute_generator_loss(verify_finite) == Term("generator", << >>, verify_finite)

\* self.discriminator.discriminator_loss(real_output, fake_output)
discriminator_loss(self) ==
    [self EXCEPT !.discriminator.d_loss = TRUE, !.log = Append(@, "d_loss:=")]

set_up_adversarial_loss(self) ==
    LET s1 == initialize_adversary(self, "dcgan")
    IN  IF s1.err # "none" THEN s1
        ELSE discriminator_loss(
                 WriteLoss(s1, Single(compute_generator_loss(TRUE))))

set_up_adversarial_plus_ce_loss(self) ==
    LET s1 == initialize_adversary(self, "dcgan")
    IN  IF s1.err # "none" THEN s1
        ELSE LET batch_generator_loss == compute_generator_loss(TRUE)
                 ce == compute_sce_loss(s1, TRUE)
             IN  IF ce.err # "none" THEN Raise(s1, ce.err)
                 ELSE discriminator_loss(
                          WriteLoss(s1, [form |-> "lambda", a |-> ce.value,
                                         b |-> batch_generator_loss,
                                         checked |-> FALSE]))

set_up_ot_loss(self) ==
    LET ce == compute_sce_loss(self, TRUE)
    IN  IF ce.err # "none" THEN Raise(self, ce.err)
        ELSE IF self.fov_z # 1 THEN Raise(self, "AssertionError")
        ELSE LET s1 == WriteLoss(self, Single(Term("ot", << >>, FALSE)))
             IN  WriteLoss(s1, verify_tensor_all_finite(s1.loss))

set_up_patchgan_loss(self) ==
    LET s1 == initialize_adversary(self, "patchgan")
    IN  IF s1.err # "none" THEN s1
        ELSE discriminator_loss(
                 WriteLoss(s1, Single(compute_generator_loss(TRUE))))

set_up_patchgan_plus_ce_loss(self) ==
    LET s1 == initialize_adversary(self, "patchgan")
    IN  IF s1.err # "none" THEN s1
        ELSE LET batch_generator_loss == compute_generator_loss(TRUE)
                 s2 == WriteLoss(s1, Single(batch_generator_loss))
                 ce == compute_sce_loss(s2, TRUE)
             IN  IF ce.err # "none" THEN Raise(s2, ce.err)
                 ELSE discriminator_loss(
                          WriteLoss(s2, [form |-> "lambda", a |-> ce.value,
                                         b |-> batch_generator_loss,
                                         checked |-> FALSE]))

\* an unknown name falling back to the default strategy
set_up_loss_default(self) ==
    CASE self.loss_name = "sigmoid_pixelwise" -> set_up_sigmoid_pixelwise_loss(self)
      [] self.loss_name = "l1" -> set_up_l1_loss(self)
      [] self.loss_name = "l1_continuity" -> set_up_l1_continuity_loss(self)
      [] self.loss_name = "ssim" -> set_up_ssim_loss(self)
      [] self.loss_name = "ms_ssim" -> set_up_ms_ssim_loss(self)
      [] self.loss_name = "boundary" -> set_up_boundary_loss(self)
      [] self.loss_name = "adversarial" -> set_up_adversarial_loss(self)
      [] self.loss_name = "adversarial_sce" -> set_up_adversarial_plus_ce_loss(self)
      [] self.loss_name = "ot" -> set_up_ot_loss(self)
      [] self.loss_name = "patchgan" -> set_up_patchgan_loss(self)
      [] self.loss_name = "patchgan_sce" -> set_up_patchgan_plus_ce_loss(self)
      [] OTHER -> set_up_l1_loss(self)

set_up_loss(self) ==
    CASE self.loss_name = "sigmoid_pixelwise" -> set_up_sigmoid_pixelwise_loss(self)
      [] self.loss_name = "l1" -> set_up_l1_loss(self)
      [] self.loss_name = "l1_continuity" -> set_up_l1_continuity_loss(self)
      [] self.loss_name = "ssim" -> set_up_ssim_loss(self)
      [] self.loss_name = "ms_ssim" -> set_up_ms_ssim_loss(self)
      [] self.loss_name = "boundary" -> set_up_boundary_loss(self)
      [] self.loss_name = "adversarial" -> set_up_adversarial_loss(self)
      [] self.loss_name = "adversarial_sce" -> set_up_adversarial_plus_ce_loss(self)
      [] self.loss_name = "ot" -> set_up_ot_loss(self)
      [] self.loss_name = "patchgan" -> set_up_patchgan_loss(self)
      [] self.loss_name = "patchgan_sce" -> set_up_patchgan_plus_ce_loss(self)
      [] OTHER -> Raise(self, "NotImplementedError")

----------------------------------------------------------------------------
(* Optimizer assembly *)

\* fftracer.utils.tensor_ops.clip_gradients: every entry of a gradient
\* tensor clipped to [-mag, mag]
clip_gradients(mag, g) ==
    [i \in DOMAIN g |-> IF g[i] > mag THEN mag
                        ELSE IF g[i] < -mag THEN -mag ELSE g[i]]

\* the gradients clipped at 1.0 instead of the default bound
get_gradients_for_scope_wide(self, loss_op, scope) ==
    IF self.undefined_grad = scope
    THEN [self |-> Raise([self EXCEPT !.log = Append(@, "logging.error")],
                         "ValueError"),
          value |-> NoTrainOp]
    ELSE [self |-> self,
          value |-> [built |-> TRUE, loss |-> loss_op, scope |-> scope,
                     clip |-> Scale]]

\* returns the model (its log and error) and the clipped gradient/variable
\* pairs; a None gradient is logged, passes clip_gradients and reaches
\* tf.summary.histogram(var.name, None), which raises
get_gradients_for_scope(self, loss_op, scope) ==
    IF self.undefined_grad = scope
    THEN [self |-> Raise([self EXCEPT !.log = Append(@, "logging.error")],
                         "ValueError"),
          value |-> NoTrainOp]
    ELSE [self |-> self,
          value |-> [built |-> TRUE, loss |-> loss_op, scope |-> scope,
                     clip |-> MaxGradientEntryMag]]

\* the optimizer storing the loss it resolved back into the slot
set_up_optimizer_writes(self, loss_arg) ==
    LET local_loss == IF loss_arg = NoLoss THEN self.loss ELSE loss_arg
    IN  IF self.loss = NoLoss THEN Raise(self, "ValueError")
        ELSE LET s1 == WriteLoss([self EXCEPT !.log = Append(@, "read_loss")],
                                 local_loss)
             IN  [s1 EXCEPT !.train_op =
                                get_gradients_for_scope(
                                    [s1 EXCEPT !.undefined_grad = "None"],
                                    s1.loss, "seed_update").value,
                            !.log = Append(@, "train_op:=")]

\* the optimizer that never adds the discriminator's train operation
set_up_optimizer_main_only(self, loss_arg) ==
    IF self.loss = NoLoss THEN Raise(self, "ValueError")
    ELSE [self EXCEPT !.train_op =
                          get_gradients_for_scope(
                              [self EXCEPT !.undefined_grad = "None"],
                              self.loss, "seed_update").value,
                      !.log = @ \o <<"read_loss", "train_op:=">>]

\* the local `loss` is resolved from the argument (lines 514-515), but the
\* summary and the gradients are taken from self.loss (lines 516-520)
set_up_optimizer(self, loss_arg) ==
    LET local_loss == IF loss_arg = NoLoss THEN self.loss ELSE loss_arg
        s0 == IF loss_arg = NoLoss THEN self
              ELSE [self EXCEPT !.log = Append(@, "loss_arg")]
    IN  IF s0.loss = NoLoss THEN Raise(s0, "ValueError")
        ELSE LET s1 == [s0 EXCEPT !.log = Append(@, "read_loss")]
                 ffn_grads_and_vars ==
                     get_gradients_for_scope(s1, s1.loss, "seed_update")
                 s2 == ffn_grads_and_vars.self
             IN  IF s2.err # "none" THEN s2
                 ELSE IF s2.discriminator # NoDiscriminator
                 THEN IF ~s2.discriminator.d_loss
                      THEN Raise(s2, "AttributeError")
                      ELSE LET d_grads_and_vars ==
                                   get_gradients_for_scope(
                                       s2, Single(Term("d_loss", << >>, FALSE)),
                                       "discriminator")
                               s3 == d_grads_and_vars.self
                           IN  IF s3.err # "none" THEN s3
                               ELSE [s3 EXCEPT
                                       !.train_op = ffn_grads_and_vars.value,
                                       !.adversarial_train_op =
                                           d_grads_and_vars.value,
                                       !.log = @ \o <<"train_op:=",
                                                      "adversarial_train_op:=">>]
                 ELSE [s2 EXCEPT !.train_op = ffn_grads_and_vars.value,
                                 !.log = Append(@, "train_op:=")]

\* the build going on to the optimizer after set_up_loss has raised
define_tf_graph_continues(self) ==
    LET s0 == [self EXCEPT !.logits = TRUE,
                           !.log = <<"seed_update", "logits:=">>]
    IN  IF s0.labels # "None"
        THEN LET s1 == [set_up_loss(s0) EXCEPT !.err = "none"]
                 s2 == set_up_optimizer(s1, NoLoss)
             IN  IF s2.err # "none" THEN s2
                 ELSE [s2 EXCEPT !.log = Append(@, "saver:=")]
        ELSE [s0 EXCEPT !.log = Append(@, "saver:=")]

define_tf_graph(self) ==
    LET s0 == [self EXCEPT !.logits = TRUE,
                           !.log = <<"seed_update", "logits:=">>]
    IN  IF s0.labels # "None"
        THEN LET s1 == set_up_loss(s0)
             IN  IF s1.err # "none" THEN s1
                 ELSE LET s2 == set_up_optimizer(s1, NoLoss)
                      IN  IF s2.err # "none" THEN s2
                          ELSE [s2 EXCEPT !.log = Append(@, "saver:=")]
        ELSE [s0 EXCEPT !.log = Append(@, "saver:=")]

----------------------------------------------------------------------------
(* The boundary strategy's distance maps, computed when the loss is run *)

\* scipy distance_transform_edt on a row: 0 where the mask is off, else the
\* distance to the nearest voxel where it is off; with no such voxel the
\* result is not specified and is the value u
distance(mask, u) ==
    [i \in DOMAIN mask |->
        IF ~mask[i] THEN 0
        ELSE IF \A j \in DOMAIN mask : mask[j] THEN u
        ELSE CHOOSE d \in 1..Len(mask) :
                 /\ \E j \in DOMAIN mask :
                        ~mask[j] /\ (j - i = d \/ i - j = d)
                 /\ \A j \in DOMAIN mask :
                        ~mask[j] => (j - i >= d \/ i - j >= d)]

\* the signed distance map before the division by max_dist
SignedDistance(posmask, u) ==
    LET negmask == [i \in DOMAIN posmask |-> ~posmask[i]]
    IN  [i \in DOMAIN posmask |->
            distance(negmask, u)[i] * (IF negmask[i] THEN 1 ELSE 0)
            - (distance(posmask, u)[i] - 1) * (IF posmask[i] THEN 1 ELSE 0)]

\* the distance map computed without the foreground assertion
calc_dist_map_unchecked(seg, u) ==
    [err |-> "none",
     value |-> SignedDistance([i \in DOMAIN seg |-> seg[i] >= Threshold], u)]

calc_dist_map(seg, u) ==
    LET posmask == [i \in DOMAIN seg |-> seg[i] >= Threshold]
    IN  IF \A i \in DOMAIN posmask : ~posmask[i]
        THEN [err |-> "AssertionError", value |-> << >>]
        ELSE [err |-> "none", value |-> SignedDistance(posmask, u)]

calc_dist_map_batch(batch, u) ==
    IF \E k \in DOMAIN batch : calc_dist_map(batch[k], u).err # "none"
    THEN [err |-> "AssertionError", value |-> << >>]
    ELSE [err |-> "none",
          value |-> [k \in DOMAIN batch |-> calc_dist_map(batch[k], u).value]]

\* the graph of loss expression l holds the boundary py_func
UsesDistMap(l) == l.b.name = "boundary"

\* the label batches that matter to a run of loss expression l
BatchInputs(l) == IF UsesDistMap(l) THEN Batches ELSE {<< >>}

\* the values distance_transform_edt may give where it is not specified
UnspecifiedInputs(batch) ==
    IF \E k \in DOMAIN batch : \A i \in DOMAIN batch[k] : batch[k][i] >= Threshold
    THEN 1..2 ELSE {1}

----------------------------------------------------------------------------
(* The state machine *)

Init ==
    /\ loss_name \in NameInputs
    /\ alpha \in AlphaValues
    /\ adv_args \in BOOLEAN
    /\ fov_z \in 1..2
    /\ labels \in LabelInputs
    /\ loss_weights \in WeightInputs
    /\ loss = NoLoss
    /\ discriminator = NoDiscriminator
    /\ train_op = NoTrainOp
    /\ adversarial_train_op = NoTrainOp
    /\ logits = FALSE
    /\ global_step = 0
    /\ err = "none"
    /\ log = << >>
    /\ last = "__init__"
    /\ calls = 0
    /\ disc_count = 0
    /\ undefined_grad \in IF loss_name \in AdversarialNames THEN ScopeInputs
                         ELSE ScopeInputs \ {"discriminator"}
    /\ y_true = << >>
    /\ dist_map = << >>
    /\ raw_grads = << >>
    /\ applied_grads = << >>
    /\ main_runs = 0
    /\ adv_runs = 0

\* the model object after a method call that returned r
Becomes(r, op) ==
    /\ loss' = r.loss
    /\ discriminator' = r.discriminator
    /\ train_op' = r.train_op
    /\ adversarial_train_op' = r.adversarial_train_op
    /\ logits' = r.logits
    /\ err' = r.err
    /\ log' = r.log
    /\ disc_count' = r.disc_count
    /\ last' = op
    /\ y_true' = << >>
    /\ dist_map' = << >>
    /\ raw_grads' = << >>
    /\ applied_grads' = << >>
    /\ UNCHANGED <<loss_name, alpha, adv_args, fov_z, labels, loss_weights,
                   global_step, undefined_grad, main_runs, adv_runs>>

\* the training driver builds the graph once per model object
DefineTfGraph ==
    /\ ~logits
    /\ Becomes(define_tf_graph(Self), "define_tf_graph")
    /\ UNCHANGED calls

\* set_up_loss called again on the built logits
SetUpLoss ==
    /\ logits
    /\ calls < MaxCalls
    /\ calls' = calls + 1
    /\ Becomes(set_up_loss(Self), "set_up_loss")

ExplicitLoss == Single(Term("explicit", << >>, TRUE))

\* set_up_optimizer called directly, with or without a loss argument
SetUpOptimizer ==
    /\ calls < MaxCalls
    /\ calls' = calls + 1
    /\ \E loss_arg \in {NoLoss, ExplicitLoss} :
           Becomes(set_up_optimizer(Self, loss_arg), "set_up_optimizer")

\* what one session.run of train operation op does to the step counter and
\* to the values it computes: the label batch goes through the boundary
\* py_func when the loss holds it, the gradients are clipped and applied and
\* global_step is incremented; an error in the py_func ends the run before
\* anything is applied
RunOp(op, name, batch, g, u) ==
    LET dm == calc_dist_map_batch(batch, u)
    IN  /\ last' = name
        /\ log' = << >>
        /\ IF UsesDistMap(op.loss) /\ dm.err # "none"
           THEN /\ err' = dm.err
                /\ y_true' = batch
                /\ dist_map' = << >>
                /\ raw_grads' = << >>
                /\ applied_grads' = << >>
                /\ global_step' = global_step
           ELSE /\ err' = "none"
                /\ y_true' = IF UsesDistMap(op.loss) THEN batch ELSE << >>
                /\ dist_map' = IF UsesDistMap(op.loss) THEN dm.value ELSE << >>
                /\ raw_grads' = g
                /\ applied_grads' = clip_gradients(op.clip, g)
                /\ global_step' = global_step + 1
        /\ UNCHANGED <<loss_name, alpha, adv_args, fov_z, labels, loss_weights,
                       loss, discriminator, train_op, adversarial_train_op,
                       logits, calls, disc_count, undefined_grad>>

\* one session.run of self.train_op
RunTrainOp ==
    /\ train_op.built
    /\ global_step < MaxStep
    /\ \E batch \in BatchInputs(train_op.loss), g \in GradTensors :
         \E u \in UnspecifiedInputs(batch) :
           /\ RunOp(train_op, "train", batch, g, u)
           /\ main_runs' = IF err' = "none" THEN main_runs + 1 ELSE main_runs
    /\ UNCHANGED adv_runs

\* the discriminator's train operation applied without the step counter
RunAdversarialTrainOp_no_step ==
    /\ adversarial_train_op.built
    /\ global_step < MaxStep
    /\ \E g \in GradTensors :
           /\ last' = "train_adversary"
           /\ log' = << >>
           /\ err' = "none"
           /\ y_true' = << >>
           /\ dist_map' = << >>
           /\ raw_grads' = g
           /\ applied_grads' = clip_gradients(adversarial_train_op.clip, g)
           /\ adv_runs' = adv_runs + 1
    /\ UNCHANGED <<loss_name, alpha, adv_args, fov_z, labels, loss_weights,
                   loss, discriminator, train_op, adversarial_train_op,
                   logits, calls, disc_count, undefined_grad, global_step,
                   main_runs>>

\* one session.run of self.adversarial_train_op
RunAdversarialTrainOp ==
    /\ adversarial_train_op.built
    /\ global_step < MaxStep
    /\ \E batch \in BatchInputs(adversarial_train_op.loss), g \in GradTensors :
         \E u \in UnspecifiedInputs(batch) :
           /\ RunOp(adversarial_train_op, "train_adversary", batch, g, u)
           /\ adv_runs' = IF err' = "none" THEN adv_runs + 1 ELSE adv_runs
    /\ UNCHANGED main_runs

Next ==
    \/ DefineTfGraph
    \/ SetUpLoss
    \/ SetUpOptimizer
    \/ RunTrainOp
    \/ RunAdversarialTrainOp

Spec == Init /\ [][Next]_vars

TypeOK ==
    /\ loss_name \in NameInputs
    /\ global_step \in 0..MaxStep
    /\ calls \in 0..MaxCalls
    /\ err \in {"none", "AssertionError", "ValueError", "AttributeError",
                "NotImplementedError"}

----------------------------------------------------------------------------
(* Properties *)

\* number of elements of sequence q equal to e
Count(q, e) == Cardinality({i \in 1..Len(q) : q[i] = e})

\* the last call ran the dispatcher: a graph build with labels, or set_up_loss
Dispatched ==
    \/ last = "define_tf_graph" /\ labels # "None"
    \/ last = "set_up_loss"

\* the last call ran the dispatcher and the dispatcher returned normally
LossBuilt ==
    /\ Dispatched
    /\ loss_name \in LossNames
    /\ \/ err = "none"
       \/ last = "define_tf_graph" /\ Count(log, "read_loss") > 0

NumTrainOps ==
    (IF train_op.built THEN 1 ELSE 0) + (IF adversarial_train_op.built THEN 1 ELSE 0)

\* C1 (as stated): a graph build with a loss_name outside the enumerated set
\* always fails with NotImplementedError, and fails before the backbone and
\* logit ops are built, whether or not labels are supplied.
C1_FailsBeforeAnyOp ==
    (last = "define_tf_graph" /\ loss_name \notin LossNames)
        => (err = "NotImplementedError" /\ ~logits)

\* C1 (amended): with a loss_name outside the enumerated set, a graph build
\* with labels fails with NotImplementedError in the dispatcher, after the
\* backbone and logit ops are built and before any loss, discriminator or
\* train operation is set; a build without labels never reaches the
\* dispatcher and completes without error; a direct set_up_loss call fails
\* with NotImplementedError as its first effect.
C1_UnknownLossName ==
    loss_name \notin LossNames =>
        /\ loss = NoLoss
        /\ discriminator = NoDiscriminator
        /\ NumTrainOps = 0
        /\ (last = "define_tf_graph" /\ labels # "None") =>
               /\ err = "NotImplementedError"
               /\ log = <<"seed_update", "logits:=", "raise">>
        /\ (last = "define_tf_graph" /\ labels = "None") =>
               /\ err = "none"
               /\ log = <<"seed_update", "logits:=", "saver:=">>
        /\ last = "set_up_loss" =>
               /\ err = "NotImplementedError"
               /\ log = <<"raise">>

C1_Witness ==
    /\ last = "define_tf_graph"
    /\ loss_name = "bogus"
    /\ labels = "same_shape"
    /\ err = "NotImplementedError"
    /\ logits

\* C2: whenever set_up_loss returns for an accepted loss_name, the value in
\* the loss slot is the output of the finite-value guard.
C2_LossSlotGuarded ==
    LossBuilt => loss.checked

\* C3: the scheduled weight lies in [0.01, 1] at every step, and a step of
\* the counter never raises it; once at the floor it stays at the floor.
C3_ScheduleBoundedNonIncreasing ==
    /\ [](alpha_schedule(global_step, alpha) \in Floor..Scale)
    /\ [][/\ global_step' >= global_step
          /\ alpha_schedule(global_step', alpha')
                 <= alpha_schedule(global_step, alpha)
          /\ (alpha_schedule(global_step, alpha) = Floor
                 => alpha_schedule(global_step', alpha') = Floor)]_vars

C3_Witness ==
    /\ loss.form = "blend"
    /\ global_step > 1
    /\ alpha_schedule(global_step, alpha) = Floor
    /\ alpha_schedule(global_step - 1, alpha) > Floor
    /\ alpha_schedule(global_step - 1, alpha) < Scale

\* C4 (as stated): one invocation of set_up_loss writes the loss slot exactly
\* once.
C4_WrittenExactlyOnce ==
    LossBuilt => Count(log, "loss:=") = 1

\* writes to the loss slot made by one returning set_up_loss call
WritesOf(name) ==
    CASE name \in {"adversarial", "adversarial_sce", "patchgan"} -> {1}
      [] name \in {"l1", "l1_continuity", "ssim", "ms_ssim", "boundary", "ot",
                    "patchgan_sce"} -> {2}
      [] OTHER -> 1..2

\* C4 (amended): one invocation of set_up_loss that returns writes the loss
\* slot once or twice (once for adversarial, adversarial_sce and patchgan,
\* twice for l1, l1_continuity, ssim, ms_ssim, boundary, ot and
\* patchgan_sce); once set_up_loss has returned, the rest of the graph
\* build, optimizer setup and the train operations only read the slot.
C4_WrittenThenReadOnly ==
    /\ [](LossBuilt =>
            /\ Count(log, "loss:=") \in WritesOf(loss_name)
            /\ \A i, j \in 1..Len(log) :
                   (log[i] = "loss:=" /\ log[j] = "read_loss") => i < j)
    /\ [][last' \in {"set_up_optimizer", "train", "train_adversary"}
              => (loss' = loss /\ Count(log', "loss:=") = 0)]_vars

C4_Witness ==
    /\ last = "define_tf_graph"
    /\ loss_name = "patchgan_sce"
    /\ err = "none"
    /\ Count(log, "loss:=") = 2
    /\ Count(log, "read_loss") = 1
    /\ train_op.built
    /\ train_op.loss = loss

\* C5: over any sequence of adversarial loss builds on one model object the
\* discriminator is constructed at most once; later builds reuse it.
C5_DiscriminatorConstructedOnce ==
    disc_count <= 1

\* C6: after a completed graph build there are no train operations when no
\* labels were supplied, one (main) for a non-adversarial strategy and two
\* (main and discriminator) for an adversarial one; the discriminator and
\* the adversarial train operation are present exactly for the adversarial
\* strategies.
C6_TrainOpCount ==
    (last = "define_tf_graph" /\ err = "none") =>
        /\ NumTrainOps = IF labels = "None" THEN 0
                         ELSE IF loss_name \in AdversarialNames THEN 2 ELSE 1
        /\ (train_op.built \/ ~adversarial_train_op.built)
        /\ (discriminator # NoDiscriminator) <=> adversarial_train_op.built
        /\ adversarial_train_op.built <=>
               (labels # "None" /\ loss_name \in AdversarialNames)

C6_Witness ==
    /\ last = "define_tf_graph"
    /\ err = "none"
    /\ loss_name = "patchgan"
    /\ discriminator.type = "patchgan"
    /\ train_op.built
    /\ adversarial_train_op.built

\* C7: an adversarial strategy on a model constructed without adversary
\* arguments fails while the loss is built, before any execution, and leaves
\* the model without discriminator, without loss and without train operation.
C7_NoAdversaryArgs ==
    (loss_name \in AdversarialNames /\ ~adv_args) =>
        /\ discriminator = NoDiscriminator
        /\ loss = NoLoss
        /\ NumTrainOps = 0
        /\ global_step = 0
        /\ Dispatched =>
               /\ err # "none"
               /\ Count(log, "loss:=") = 0
               /\ Count(log, "discriminator:=") = 0
               /\ Count(log, "read_loss") = 0
               /\ labels = "same_shape" => err = "AssertionError"

C7_Witness ==
    /\ last = "define_tf_graph"
    /\ loss_name = "adversarial_sce"
    /\ ~adv_args
    /\ labels = "same_shape"
    /\ loss_weights # << >>
    /\ err = "AssertionError"
    /\ log = <<"seed_update", "logits:=", "raise">>

\* C8: labels whose shape differs from the logits under an adversarial
\* strategy, and a depth axis other than 1 under the optimal-transport
\* strategy, fail inside set_up_loss: no loss is written, no discriminator
\* is installed and optimizer setup is not reached.
C8_ShapeErrors ==
    LET shape_case == loss_name \in AdversarialNames /\ labels = "other_shape"
        depth_case == loss_name = "ot" /\ fov_z # 1
    IN  (shape_case \/ depth_case) =>
            /\ loss = NoLoss
            /\ discriminator = NoDiscriminator
            /\ NumTrainOps = 0
            /\ Count(log, "read_loss") = 0
            /\ Dispatched =>
                   /\ err # "none"
                   /\ Count(log, "loss:=") = 0
                   /\ Count(log, "discriminator:=") = 0
                   /\ shape_case => err = "AssertionError"
                   /\ (depth_case /\ labels = "same_shape" /\ loss_weights # << >>)
                          => err = "AssertionError"

C8_Witness ==
    /\ last = "define_tf_graph"
    /\ loss_name = "ot"
    /\ fov_z = 2
    /\ labels = "same_shape"
    /\ loss_weights # << >>
    /\ err = "AssertionError"
    /\ loss = NoLoss

\* C9: for ssim and ms_ssim the loss_weights are ignored: the build succeeds
\* whether or not loss_weights are present, and a build that differs only in
\* loss_weights yields the same loss.
C9_WeightsIgnored ==
    (last = "define_tf_graph" /\ loss_name \in {"ssim", "ms_ssim"}
         /\ labels = "same_shape") =>
        /\ err = "none"
        /\ \A w \in WeightInputs :
               LET other == set_up_loss([Self EXCEPT !.loss_weights = w,
                                                     !.loss = NoLoss])
               IN  /\ other.err = "none"
                   /\ Eval(other.loss, global_step, alpha)
                          = Eval(loss, global_step, alpha)

\* weight * cross_entropy + (1 - weight) * structural_term, times Scale
ScheduledBlend(structural) ==
    LET weight == alpha_schedule(global_step, alpha)
    IN  weight * TermValue(Term("sce", loss_weights, TRUE))
        + (Scale - weight) * TermValue(Term(structural, << >>, FALSE))

\* C10 (as stated): for boundary, ssim and ms_ssim the final loss is the
\* scheduled blend of cross-entropy and the structural term; no other
\* strategy uses the blend.
C10_FamilyBlended ==
    (loss # NoLoss /\ loss_name \in LossNames) =>
        IF loss_name \in {"boundary", "ssim", "ms_ssim"}
        THEN Eval(loss, global_step, alpha) = ScheduledBlend(loss_name)
        ELSE loss.form # "blend"

\* C10 (amended): for boundary and ssim the final loss is the scheduled
\* blend weight * cross_entropy + (1 - weight) * structural_term with
\* weight = schedule(step, alpha); for ms_ssim the final loss is the negated
\* mean MS-SSIM alone, with no cross-entropy term and no schedule; no other
\* strategy uses the blend.
C10_BlendedStrategies ==
    (loss # NoLoss /\ loss_name \in LossNames) =>
        CASE loss_name \in {"boundary", "ssim"} ->
                 /\ loss.form = "blend"
                 /\ Eval(loss, global_step, alpha) = ScheduledBlend(loss_name)
          [] loss_name = "ms_ssim" ->
                 /\ loss.form = "term"
                 /\ Eval(loss, global_step, alpha)
                        = Scale * TermValue(Term("ms_ssim", << >>, FALSE))
          [] OTHER -> loss.form # "blend"

C10_Witness ==
    /\ loss_name = "boundary"
    /\ loss.form = "blend"
    /\ last = "train"
    /\ alpha_schedule(global_step, alpha) < Scale
    /\ alpha_schedule(global_step, alpha) > Floor

\* some volume of the batch has no voxel at or above the threshold
HasEmptyVolume(batch) ==
    \E k \in DOMAIN batch : \A i \in DOMAIN batch[k] : batch[k][i] < Threshold

\* C11: in the boundary strategy, a batch holding a ground-truth volume with
\* no voxel at or above 0.95 makes the distance-map computation raise when
\* the loss is run; no distance map is returned, nothing is applied, and the
\* step counter and the model are left as they were.
C11_EmptyForegroundRaises ==
    /\ [](y_true # << >> =>
            IF HasEmptyVolume(y_true)
            THEN err = "AssertionError" /\ dist_map = << >>
                 /\ applied_grads = << >>
            ELSE err = "none" /\ Len(dist_map) = Len(y_true))
    /\ [][(y_true' # << >> /\ HasEmptyVolume(y_true'))
              => (global_step' = global_step /\ loss' = loss
                  /\ train_op' = train_op)]_vars

C11_Witness ==
    /\ last = "train"
    /\ loss_name = "boundary"
    /\ y_true = << <<5, 95>>, <<5, 5>> >>
    /\ err = "AssertionError"
    /\ dist_map = << >>

\* C12: with the default bound every gradient entry above 0.7 in magnitude
\* is applied as exactly +0.7 or -0.7 with its sign, entries within
\* [-0.7, 0.7] are applied unchanged, and clipping the applied entries again
\* changes nothing.
C12_ClipIdempotent ==
    applied_grads # << >> =>
        /\ DOMAIN applied_grads = DOMAIN raw_grads
        /\ \A i \in DOMAIN raw_grads :
               /\ raw_grads[i] > 700 => applied_grads[i] = 700
               /\ raw_grads[i] < -700 => applied_grads[i] = -700
               /\ (raw_grads[i] >= -700 /\ raw_grads[i] <= 700)
                      => applied_grads[i] = raw_grads[i]
        /\ clip_gradients(700, applied_grads) = applied_grads

C12_Witness ==
    /\ last = "train"
    /\ raw_grads = <<-701, 700>>
    /\ applied_grads = <<-700, 700>>

\* C13: in get_gradients_for_scope a variable whose gradient is undefined
\* has an error logged and the call still completes, returning the
\* gradient/variable pairs from which the train operation is made.
C13_UndefinedGradientNonFatal ==
    Count(log, "logging.error") > 0 =>
        (Count(log, "raise") = 0 /\ err = "none" /\ train_op.built)

\* C14: in a graph build with labels the loss slot is written by set_up_loss
\* before set_up_optimizer reads it, and once set_up_loss has raised nothing
\* of set_up_optimizer happens: the slot is not read and no train operation,
\* main or adversarial, is created.
C14_LossBeforeOptimizer ==
    (last = "define_tf_graph" /\ labels # "None") =>
        /\ \A i, j \in 1..Len(log) :
               (log[i] = "raise" /\ log[j] \in {"read_loss", "train_op:=",
                                                "adversarial_train_op:="})
                   => j < i
        /\ Count(log, "read_loss") > 0 =>
               /\ loss # NoLoss
               /\ \E i, j \in 1..Len(log) :
                      i < j /\ log[i] = "loss:=" /\ log[j] = "read_loss"
        /\ (err # "none" /\ Count(log, "read_loss") = 0) =>
               /\ NumTrainOps = 0
               /\ Count(log, "train_op:=") = 0
               /\ Count(log, "adversarial_train_op:=") = 0

C14_Witness ==
    /\ last = "define_tf_graph"
    /\ loss_name = "patchgan_sce"
    /\ loss_weights = << >>
    /\ err = "AssertionError"
    /\ loss # NoLoss
    /\ discriminator # NoDiscriminator
    /\ NumTrainOps = 0

\* C15: under any interleaving of executions of the two train operations the
\* step counter never decreases, each completed execution of either one
\* advances it by exactly one, and it equals the number of completed
\* executions of both.
C15_StepAdvancesByOne ==
    /\ [](global_step = main_runs + adv_runs)
    /\ [][/\ global_step' >= global_step
          /\ (main_runs' + adv_runs' = main_runs + adv_runs + 1)
                 => global_step' = global_step + 1
          /\ (main_runs' + adv_runs' = main_runs + adv_runs)
                 => global_step' = global_step]_vars

C15_Witness ==
    /\ last = "train_adversary"
    /\ main_runs = 1
    /\ adv_runs = 1
    /\ global_step = 2

\* C16: when set_up_optimizer is given a loss argument, the main train
\* operation is derived from that loss and not from the stored loss slot.
C16_ExplicitLossUsed ==
    (last = "set_up_optimizer" /\ Count(log, "loss_arg") > 0 /\ err = "none")
        => (train_op.built /\ train_op.loss = ExplicitLoss)

====
